---- MODULE Spec2Model ----
(***************************************************************************)
(* A model of kevlar's variant caller (src/kevlar/call.py): the coordinate  *)
(* mapper, the SNV and indel callers, the CIGAR dispatcher, the selector's  *)
(* interpretability test and the `call` generator.                          *)
(*                                                                          *)
(* Strings are tuples of one-character strings, so that slicing, regular    *)
(* expression matching and integer parsing are computed, not assumed.       *)
(***************************************************************************)
EXTENDS Integers, Sequences, FiniteSets, TLC

VARIABLES
    inp,          \* pure-function checks: the target, the query and ksize
    app,          \* pure-function checks: the function applied and its arguments
    res,          \* pure-function checks: what the function returned or raised
    targetlist,   \* call: the targets, in the caller's order
    querylist,    \* call: the queries, in processing order; .sequence is mutable
    origseq,      \* call: each query's sequence when call() was entered
    matefile,     \* call: whether a mate-reads file was supplied
    refrfile,     \* call: whether a reference file was supplied
    bwa,          \* call: what the external mate aligner yields, once run
    mate_pos,     \* call: the cached mate positions, None until loaded
    pc,           \* call: the generator's position
    qi,           \* call: index of the query being processed
    alignments,   \* call: the score-sorted alignments of the current query
    aligns2report,\* call: the candidates reported for the current query
    ai,           \* call: index of the candidate being processed
    best,         \* call: the `best` flag
    pending,      \* call: make_call's records not yet yielded
    yielded,      \* call: the record handed to the consumer by the last yield
    callargs,     \* call: the arguments of the last make_call
    fault         \* call: the exception that ended the run, if any

vars == <<inp, app, res, targetlist, querylist, origseq, matefile, refrfile,
          bwa, mate_pos, pc, qi, alignments, aligns2report, ai, best, pending,
          yielded, callargs, fault>>

purevars == <<inp, app, res>>

callvars == <<targetlist, querylist, origseq, matefile, refrfile, bwa,
              mate_pos, pc, qi, alignments, aligns2report, ai, best, pending,
              yielded, callargs, fault>>

(***************************************************************************)
(* Bounds of the model.                                                     *)
(***************************************************************************)
MaxSeqLen == 3
MaxK == 2
MaxOff == 1
MaxCount == 1
MaxTrail == 6

(***************************************************************************)
(* Python values.                                                           *)
(***************************************************************************)
None == <<>>
Some(v) == <<v>>

Digits == <<"0", "1", "2", "3", "4", "5", "6", "7", "8", "9">>

IsDigit(c) == \E d \in 1..10 : Digits[d] = c

DigitVal(c) == (CHOOSE d \in 1..10 : Digits[d] = c) - 1

\* int(s) for a non-empty run of decimal digits
RECURSIVE IntOf(_)
IntOf(s) ==
    IF Len(s) = 0 THEN 0
    ELSE 10 * IntOf(SubSeq(s, 1, Len(s) - 1)) + DigitVal(s[Len(s)])

\* str(n) for n >= 0
RECURSIVE Str(_)
Str(n) ==
    IF n < 10 THEN <<Digits[n + 1]>>
    ELSE Str(n \div 10) \o <<Digits[(n % 10) + 1]>>

\* a slice bound as Python normalises it against a sequence of length n
PyIndex(n, i) ==
    IF i < 0 THEN (IF i + n < 0 THEN 0 ELSE i + n)
    ELSE IF i > n THEN n ELSE i

\* s[a:b] for normalised bounds
SliceBetween(s, a, b) == IF a >= b THEN <<>> ELSE SubSeq(s, a + 1, b)

\* s[lo:hi]
PySlice(s, lo, hi) ==
    SliceBetween(s, PyIndex(Len(s), lo), PyIndex(Len(s), hi))

\* c.upper() on the bases
Upper(c) ==
    CASE c = "a" -> "A"
      [] c = "c" -> "C"
      [] c = "g" -> "G"
      [] c = "t" -> "T"
      [] OTHER -> c

\* ord(c) on the characters of target names
Code(c) ==
    CASE c = "-" -> 45
      [] c = "_" -> 95
      [] c = "x" -> 120
      [] c = "y" -> 121
      [] IsDigit(c) -> 48 + DigitVal(c)
      [] OTHER -> 63

\* a < b on strings
RECURSIVE StrLess(_, _)
StrLess(a, b) ==
    IF Len(b) = 0 THEN FALSE
    ELSE IF Len(a) = 0 THEN TRUE
    ELSE IF Code(a[1]) # Code(b[1]) THEN Code(a[1]) < Code(b[1])
    ELSE StrLess(Tail(a), Tail(b))

\* list.sort / sorted with a key: the stable order of s, where lt[i][j] says
\* that the key of s[i] is less than the key of s[j].  Element i lands after
\* every element with a smaller key and every earlier element with an equal key.
StableSorted(s, lt) ==
    LET n == Len(s)
        rank == [i \in 1..n |-> Cardinality({j \in 1..n :
                       lt[j][i] \/ (~lt[i][j] /\ j < i)}) + 1]
    IN  [p \in 1..n |-> s[CHOOSE i \in 1..n : rank[i] = p]]

(***************************************************************************)
(* Variant records.  An absent info key is None, a present one Some(value). *)
(***************************************************************************)
Variant(kind, seqid, pos, refr, alt, nc, qn, qs, vw, rw, ik, cg) ==
    [kind |-> kind, seqid |-> seqid, pos |-> pos, refr |-> refr, alt |-> alt,
     NC |-> nc, QN |-> qn, QS |-> qs, VW |-> vw, RW |-> rw, IK |-> ik,
     CG |-> cg]

Returned(records) == [fault |-> "none", records |-> records]

Raised(exc) == [fault |-> exc, records |-> <<>>]

(***************************************************************************)
(* local_to_global: re.search('(\S+)_(\d+)-(\d+)', subseqid)                *)
(***************************************************************************)
IsSpace(c) == c = " "

\* the pattern tail `_(\d+)-(\d+)` matches at p, its first number ending at m-1
TailAt(s, p, m) ==
    /\ p >= 1 /\ m > p + 1 /\ m < Len(s)
    /\ s[p] = "_"
    /\ \A i \in (p + 1)..(m - 1) : IsDigit(s[i])
    /\ s[m] = "-"
    /\ IsDigit(s[m + 1])

\* a match that starts at b with the underscore at p
MatchAt(s, b, p) ==
    /\ b >= 1 /\ b < p
    /\ \A i \in b..(p - 1) : ~IsSpace(s[i])
    /\ \E m \in 1..Len(s) : TailAt(s, p, m)

HasMatch(s, b) == \E p \in 1..Len(s) : MatchAt(s, b, p)

\* the leftmost start of a match
MatchStart(s) ==
    CHOOSE b \in 1..Len(s) :
        HasMatch(s, b) /\ \A y \in 1..(b - 1) : ~HasMatch(s, y)

\* (\S+) is greedy: the last underscore that still matches
MatchUnderscore(s, b) ==
    CHOOSE p \in 1..Len(s) :
        MatchAt(s, b, p) /\ \A y \in (p + 1)..Len(s) : ~MatchAt(s, b, y)

MatchDash(s, p) == CHOOSE m \in 1..Len(s) : TailAt(s, p, m)

\* group(1) and int(group(2)) of the match with its underscore at p
MatchGroups(s, b, p) ==
    [ok |-> TRUE, seqid |-> SubSeq(s, b, p - 1),
     start |-> IntOf(SubSeq(s, p + 1, MatchDash(s, p) - 1))]

MatchFrom(s, b) == MatchGroups(s, b, MatchUnderscore(s, b))

l2g_match(subseqid) ==
    IF \E b \in 1..Len(subseqid) : HasMatch(subseqid, b)
    THEN MatchFrom(subseqid, MatchStart(subseqid))
    ELSE [ok |-> FALSE, seqid |-> <<>>, start |-> 0]

\* globaloffset + localcoord, for a match
GlobalCoord(match, localcoord) ==
    [ok |-> match.ok, seqid |-> match.seqid,
     coord |-> match.start + localcoord]

local_to_global(localcoord, subseqid) ==
    GlobalCoord(l2g_match(subseqid), localcoord)

(***************************************************************************)
(* call_snv                                                                 *)
(***************************************************************************)
\* snv_minpos one base further left
snv_minpos_wide(d, ksize) == IF d - ksize > 0 THEN d - ksize ELSE 0

\* minpos = max(diff[0] - ksize + 1, 0)
snv_minpos(d, ksize) == IF d - ksize + 1 > 0 THEN d - ksize + 1 ELSE 0

\* maxpos = min(diff[0] + ksize, length)
snv_maxpos(d, ksize, length) == IF d + ksize < length THEN d + ksize ELSE length

\* the target window t and the query window q that are compared
snv_t(target, offset, length) ==
    IF offset < 0 THEN PySlice(target.sequence, 0, length)
    ELSE PySlice(target.sequence, offset, offset + length)

snv_q(query, offset, length) ==
    IF offset < 0 THEN PySlice(query.sequence, -offset, length - offset)
    ELSE PySlice(query.sequence, 0, length)

\* diffs: the indices at which t and q differ, in increasing order
snv_diffs(t, q, length) ==
    SelectSeq([i \in 1..length |-> i - 1], LAMBDA i : t[i + 1] # q[i + 1])

\* the SNV of one differing index d; shift is the offset added to the local
\* coordinate (none when the target is short)
snv_record(match, query, t, q, d, shift, length, ksize) ==
    Variant("VariantSNV", match.seqid, match.start + d + shift,
            <<Upper(t[d + 1])>>, <<Upper(q[d + 1])>>, None, None, None,
            Some(PySlice(q, snv_minpos(d, ksize), snv_maxpos(d, ksize, length))),
            Some(PySlice(t, snv_minpos(d, ksize), snv_maxpos(d, ksize, length))),
            Some(Str(query.ikmers)), None)

snv_calls(match, query, t, q, diffs, shift, length, ksize) ==
    IF Len(diffs) = 0
    THEN Returned(<<Variant("Variant", match.seqid, match.start + shift,
                            <<".">>, <<".">>, Some("perfectmatch"),
                            Some(query.name), Some(q), None, None, None,
                            None)>>)
    ELSE Returned([j \in 1..Len(diffs) |->
                      snv_record(match, query, t, q, diffs[j], shift, length,
                                 ksize)])

snv_compare(match, query, t, q, shift, length, ksize) ==
    IF length > Len(t) \/ length > Len(q) THEN Raised("IndexError")
    ELSE IF ~match.ok THEN Raised("subseqid")
    ELSE snv_calls(match, query, t, q, snv_diffs(t, q, length), shift, length,
                   ksize)

call_snv(target, query, offset, length, ksize) ==
    snv_compare(l2g_match(target.name), query, snv_t(target, offset, length),
                snv_q(query, offset, length),
                IF offset < 0 THEN 0 ELSE offset, length, ksize)

(***************************************************************************)
(* deletion_allele, insertion_allele: (refr, alt, refrwindow, altwindow),   *)
(* or IndexError when the longer allele's slice is empty.                   *)
(***************************************************************************)
\* the alleles once the longer one is sliced; its first base is the shorter
Alleles(long, refrwindow, altwindow) ==
    IF Len(long) = 0
    THEN [ok |-> FALSE, long |-> <<>>, short |-> <<>>,
          refrwindow |-> <<>>, altwindow |-> <<>>]
    ELSE [ok |-> TRUE, long |-> long, short |-> <<long[1]>>,
          refrwindow |-> refrwindow, altwindow |-> altwindow]

\* deletion_allele without the anchor base before the deletion
deletion_allele_noanchor(target, query, offset, ksize, leftmatch, indellength) ==
    Alleles(PySlice(target.sequence, offset + leftmatch,
                    offset + leftmatch + indellength),
            PySlice(target.sequence, leftmatch - ksize + 1 + offset,
                    leftmatch + ksize - 1 + offset + indellength),
            PySlice(query.sequence, leftmatch - ksize + 1,
                    leftmatch + ksize - 1))

\* refr is .long, alt is .short
deletion_allele(target, query, offset, ksize, leftmatch, indellength) ==
    Alleles(PySlice(target.sequence, offset + leftmatch - 1,
                    offset + leftmatch + indellength),
            PySlice(target.sequence, leftmatch - ksize + 1 + offset,
                    leftmatch + ksize - 1 + offset + indellength),
            PySlice(query.sequence, leftmatch - ksize + 1,
                    leftmatch + ksize - 1))

\* alt is .long, refr is .short
insertion_allele(target, query, offset, ksize, leftmatch, indellength) ==
    Alleles(PySlice(query.sequence, leftmatch - 1, leftmatch + indellength),
            PySlice(target.sequence, leftmatch - ksize + 1 + offset,
                    leftmatch + ksize + indellength - 1 + offset
                        - indellength),
            PySlice(query.sequence, leftmatch - ksize + 1,
                    leftmatch + ksize + indellength - 1))

(***************************************************************************)
(* call_deletion, call_insertion                                            *)
(***************************************************************************)
VariantIndel(match, query, localcoord, refr, alt, altwindow, refrwindow) ==
    IF ~match.ok THEN Raised("subseqid")
    ELSE Returned(<<Variant("VariantIndel", match.seqid,
                            match.start + localcoord - 1, refr, alt, None,
                            None, None, Some(altwindow), Some(refrwindow),
                            Some(Str(query.ikmers)), None)>>)

\* call_deletion after its allele builder has run; with a short target the
\* builder's windows come back swapped:
\*   alt, refr, altwindow, refrwindow = insertion_allele(query, target, ...)
deletion_record(target, query, al, targetshort, localcoord) ==
    IF ~al.ok THEN Raised("IndexError")
    ELSE VariantIndel(l2g_match(target.name), query, localcoord, al.long,
                      al.short,
                      IF targetshort THEN al.refrwindow ELSE al.altwindow,
                      IF targetshort THEN al.altwindow ELSE al.refrwindow)

call_deletion(target, query, offset, ksize, leftmatch, indellength) ==
    IF offset < 0
    THEN deletion_record(target, query,
                         insertion_allele(query, target, -offset, ksize,
                                          leftmatch, indellength),
                         TRUE, leftmatch)
    ELSE deletion_record(target, query,
                         deletion_allele(target, query, offset, ksize,
                                         leftmatch, indellength),
                         FALSE, leftmatch + offset)

\* call_insertion after its allele builder has run:
\*   alt, refr, altwindow, refrwindow = deletion_allele(query, target, ...)
\* and then `assert len(alt) == indellength + 1`
insertion_record(target, query, al, targetshort, localcoord, indellength) ==
    IF ~al.ok THEN Raised("IndexError")
    ELSE IF Len(al.long) # indellength + 1 THEN Raised("inslen")
    ELSE VariantIndel(l2g_match(target.name), query, localcoord, al.short,
                      al.long,
                      IF targetshort THEN al.refrwindow ELSE al.altwindow,
                      IF targetshort THEN al.altwindow ELSE al.refrwindow)

call_insertion(target, query, offset, ksize, leftmatch, indellength) ==
    IF offset < 0
    THEN insertion_record(target, query,
                          deletion_allele(query, target, -offset, ksize,
                                          leftmatch, indellength),
                          TRUE, leftmatch, indellength)
    ELSE insertion_record(target, query,
                          insertion_allele(target, query, offset, ksize,
                                           leftmatch, indellength),
                          FALSE, leftmatch + offset, indellength)

(***************************************************************************)
(* The operation-string patterns.  Every pattern is anchored and is a run   *)
(* of `(\d+)<letter>` tokens, so a string matches exactly when it splits    *)
(* into that many tokens with the letters the pattern allows.               *)
(***************************************************************************)
DigitRun(s) ==
    IF \E i \in 1..Len(s) : ~IsDigit(s[i])
    THEN (CHOOSE i \in 1..Len(s) :
            ~IsDigit(s[i]) /\ \A j \in 1..(i - 1) : IsDigit(s[j])) - 1
    ELSE Len(s)

\* a piece of the string that is no token
NoToken == [n |-> 0, op |-> ""]

\* the `(\d+)<letter>` tokens of s as [n, op], up to and including the first
\* piece that is no token
RECURSIVE Tokens(_)
Tokens(s) ==
    IF Len(s) = 0 THEN <<>>
    ELSE LET d == DigitRun(s)
         IN  IF d = 0 \/ d = Len(s) THEN <<NoToken>>
             ELSE <<[n |-> IntOf(SubSeq(s, 1, d)), op |-> s[d + 1]]>>
                      \o Tokens(SubSeq(s, d + 2, Len(s)))

DI == {"D", "I"}

\* '^(\d+)([DI])(\d+)M(\d+)[DI]$'
SnvPattern == <<DI, {"M"}, DI>>

\* '^(\d+)([DI])(\d+)M(\d+)[DI](\d+)M$'
SnvPattern2 == <<DI, {"M"}, DI, {"M"}>>

\* '^(\d+)([DI])(\d+)M(\d+)([ID])(\d+)M(\d+)[DI]$'
IndelPattern == <<DI, {"M"}, DI, {"M"}, DI>>

\* '^(\d+)([DI])(\d+)M(\d+)([ID])(\d+)M(\d+)[DI](\d+)M$'
IndelPattern2 == <<DI, {"M"}, DI, {"M"}, DI, {"M"}>>

\* the tokens have the pattern's shape
Shape(pattern, toks) ==
    /\ Len(toks) = Len(pattern)
    /\ \A i \in 1..Len(pattern) : toks[i].op \in pattern[i]

\* re.search(pattern, cigar) is not None
re_search(pattern, cigar) == Shape(pattern, Tokens(cigar))

\* the trailing match a noisy shape may carry
MaxTrailingMatch == 5

\* TrailingOk with a strict comparison
TrailingOkStrict(n) == n < MaxTrailingMatch

\* int(snvmatch2.group(5)) <= 5, int(indelmatch2.group(8)) <= 5
TrailingOk(n) == n <= MaxTrailingMatch

(***************************************************************************)
(* make_call                                                                *)
(***************************************************************************)
\* offset = int(group(1)), negated when group(2) is 'I'
CigarOffset(tk) == IF tk[1].op = "I" THEN -tk[1].n ELSE tk[1].n

\* callfunc = call_deletion if indeltype == 'D' else call_insertion
call_indel(target, query, ksize, tk) ==
    IF tk[3].op = "D"
    THEN call_deletion(target, query, CigarOffset(tk), ksize, tk[2].n, tk[3].n)
    ELSE call_insertion(target, query, CigarOffset(tk), ksize, tk[2].n, tk[3].n)

inscrutable(match, query, cigar) ==
    IF ~match.ok THEN Raised("subseqid")
    ELSE Returned(<<Variant("Variant", match.seqid, match.start, <<".">>,
                            <<".">>, Some("inscrutablecigar"),
                            Some(query.name), Some(query.sequence), None,
                            None, None, Some(cigar))>>)

\* make_call once the operation string is split into tokens
dispatch(target, query, cigar, ksize, tk) ==
    IF Shape(SnvPattern, tk)
    THEN call_snv(target, query, CigarOffset(tk), tk[2].n, ksize)
    ELSE IF Shape(SnvPattern2, tk) /\ TrailingOk(tk[4].n)
    THEN call_snv(target, query, CigarOffset(tk), tk[2].n, ksize)
    ELSE IF Shape(IndelPattern, tk) THEN call_indel(target, query, ksize, tk)
    ELSE IF Shape(IndelPattern2, tk) /\ TrailingOk(tk[6].n)
    THEN call_indel(target, query, ksize, tk)
    ELSE inscrutable(l2g_match(target.name), query, cigar)

make_call(target, query, cigar, ksize) ==
    dispatch(target, query, cigar, ksize, Tokens(cigar))

(***************************************************************************)
(* alignment_interpretable                                                  *)
(***************************************************************************)
alignment_interpretable(cigar) ==
    \E pattern \in {SnvPattern, SnvPattern2, IndelPattern, IndelPattern2} :
        re_search(pattern, cigar)

(***************************************************************************)
(* Inputs of the pure-function specifications.                              *)
(***************************************************************************)
SeqsUpTo(alphabet, n) == UNION {[1..k -> alphabet] : k \in 0..n}

\* "x_5-9", "x_1_5-9" (seqid x_1) and the unparsable "x5"
GoodName == <<"x", "_", "5", "-", "9">>
NestedName == <<"x", "_", "1", "_", "5", "-", "9">>
BadName == <<"x", "5">>

Target(name, sequence) == [name |-> name, sequence |-> sequence]

Query(name, sequence) == [name |-> name, sequence |-> sequence, ikmers |-> 12]

NoApp == [op |-> "none", cigar |-> <<>>, trail |-> -1, offset |-> 0,
          length |-> 0, leftmatch |-> 0, indellength |-> 0, interp |-> FALSE]

CallIdle ==
    /\ targetlist = <<>> /\ querylist = <<>> /\ origseq = <<>>
    /\ matefile = FALSE /\ refrfile = FALSE /\ bwa = <<>>
    /\ mate_pos = None /\ pc = "idle" /\ qi = 0 /\ alignments = <<>>
    /\ aligns2report = <<>> /\ ai = 0 /\ best = TRUE /\ pending = <<>>
    /\ yielded = None /\ callargs = None /\ fault = "none"

Render(toks) ==
    LET piece(i) == Str(toks[i].n) \o <<toks[i].op>>
        RECURSIVE upto(_)
        upto(i) == IF i = 0 THEN <<>> ELSE upto(i - 1) \o piece(i)
    IN  upto(Len(toks))

Tk(n, op) == [n |-> n, op |-> op]

Counts == 0..MaxCount
EndCounts == {0, 1}

PlainSnvCigars ==
    {Render(<<Tk(n1, x), Tk(n2, "M"), Tk(n3, y)>>) :
        n1 \in Counts, x \in DI, n2 \in Counts, n3 \in EndCounts, y \in DI}

PlainIndelCigars ==
    {Render(<<Tk(n1, x), Tk(n2, "M"), Tk(n3, y), Tk(n4, "M"), Tk(n5, z)>>) :
        n1 \in Counts, x \in DI, n2 \in Counts, n3 \in Counts, y \in DI,
        n4 \in EndCounts, n5 \in EndCounts, z \in DI}

PlainCigars == PlainSnvCigars \cup PlainIndelCigars

WithTrail(cigar, t) == cigar \o Str(t) \o <<"M">>

\* strings of none of the shapes
OtherCigars ==
    {<<>>, <<"a", "b", "c">>, <<"3", "M">>, <<"M">>, <<"1", "D">>,
     <<"1", "D", "2", "M">>, <<"1", "M", "2", "M", "1", "D">>,
     <<"1", "D", "2", "M", "1", "D", "0", "5", "M">>,
     <<"1", "D", "2", "M", "1", "D", "1", "0", "M">>,
     <<"1", "D", "2", "M", "1", "D", " ">>,
     <<"1", "D", "2", "M", "1", "D", "1", "M", "1", "D", "1", "M", "1", "D">>}

AllCigars ==
    PlainCigars \cup OtherCigars
        \cup {WithTrail(c, t) : c \in PlainCigars, t \in 0..MaxTrail}

(***************************************************************************)
(* SpecSnv: call_snv applied to bounded inputs.                             *)
(***************************************************************************)
InitSnv ==
    /\ inp \in [target : {Target(n, s) : n \in {GoodName, BadName},
                              s \in SeqsUpTo({"A", "a", "C"}, MaxSeqLen)},
                query : {Query("q", s) : s \in SeqsUpTo({"A", "C"}, MaxSeqLen)},
                ksize : 1..MaxK]
    /\ app = NoApp
    /\ res = Returned(<<>>)
    /\ CallIdle

CallSnv ==
    /\ app.op = "none"
    /\ \E offset \in (-MaxOff)..MaxOff, length \in 0..MaxSeqLen :
        /\ app' = [NoApp EXCEPT !.op = "call_snv", !.offset = offset,
                                !.length = length]
        /\ res' = call_snv(inp.target, inp.query, offset, length, inp.ksize)
    /\ UNCHANGED <<inp, callvars>>

NextSnv == CallSnv

SpecSnv == InitSnv /\ [][NextSnv]_vars

(***************************************************************************)
(* SpecIndel: call_deletion and call_insertion applied to bounded inputs.   *)
(***************************************************************************)
InitIndel ==
    /\ inp \in [target : {Target(n, s) : n \in {GoodName, BadName},
                              s \in SeqsUpTo({"A", "C"}, MaxSeqLen)},
                query : {Query("q", s) : s \in SeqsUpTo({"A", "C"}, MaxSeqLen)},
                ksize : 1..MaxK]
    /\ app = NoApp
    /\ res = Returned(<<>>)
    /\ CallIdle

CallDeletion ==
    /\ app.op = "none"
    /\ \E offset \in (-MaxOff)..MaxOff, leftmatch \in 0..MaxSeqLen,
          indellength \in 0..MaxSeqLen :
        /\ app' = [NoApp EXCEPT !.op = "call_deletion", !.offset = offset,
                                !.leftmatch = leftmatch,
                                !.indellength = indellength]
        /\ res' = call_deletion(inp.target, inp.query, offset, inp.ksize,
                                leftmatch, indellength)
    /\ UNCHANGED <<inp, callvars>>

CallInsertion ==
    /\ app.op = "none"
    /\ \E offset \in (-MaxOff)..MaxOff, leftmatch \in 0..MaxSeqLen,
          indellength \in 0..MaxSeqLen :
        /\ app' = [NoApp EXCEPT !.op = "call_insertion", !.offset = offset,
                                !.leftmatch = leftmatch,
                                !.indellength = indellength]
        /\ res' = call_insertion(inp.target, inp.query, offset, inp.ksize,
                                 leftmatch, indellength)
    /\ UNCHANGED <<inp, callvars>>

NextIndel == CallDeletion \/ CallInsertion

SpecIndel == InitIndel /\ [][NextIndel]_vars

(***************************************************************************)
(* SpecCigar: make_call and alignment_interpretable applied to operation    *)
(* strings.                                                                 *)
(***************************************************************************)
CigarTargets == {<<"A", "C", "A">>, <<"A", "a", "C", "C">>}
CigarQueries == {<<"A", "A">>, <<"C", "A", "C", "A">>}

InitCigar ==
    /\ inp \in [target : {Target(n, s) : n \in {GoodName, BadName},
                              s \in CigarTargets},
                query : {Query("q", s) : s \in CigarQueries},
                ksize : 1..MaxK]
    /\ app = NoApp
    /\ res = Returned(<<>>)
    /\ CallIdle

\* make_call on a plain shape followed by <t>M
MakeCallTrailing ==
    /\ app.op = "none"
    /\ \E cigar \in PlainCigars, t \in 0..MaxTrail :
        /\ app' = [NoApp EXCEPT !.op = "make_call_trailing", !.cigar = cigar,
                                !.trail = t]
        /\ res' = make_call(inp.target, inp.query, WithTrail(cigar, t),
                            inp.ksize)
    /\ UNCHANGED <<inp, callvars>>

\* make_call and alignment_interpretable on the same string
Interpret ==
    /\ app.op = "none"
    /\ \E cigar \in AllCigars :
        /\ app' = [NoApp EXCEPT !.op = "interpret", !.cigar = cigar,
                                !.interp = alignment_interpretable(cigar)]
        /\ res' = make_call(inp.target, inp.query, cigar, inp.ksize)
    /\ UNCHANGED <<inp, callvars>>

NextCigar == MakeCallTrailing \/ Interpret

SpecCigar == InitCigar /\ [][NextCigar]_vars

(***************************************************************************)
(* The external collaborators of `call`.                                    *)
(***************************************************************************)
\* kevlar.revcom
Complement(c) ==
    CASE c = "A" -> "T"
      [] c = "C" -> "G"
      [] c = "G" -> "C"
      [] c = "T" -> "A"
      [] OTHER -> c

Revcom(sequence) ==
    [i \in 1..Len(sequence) |-> Complement(sequence[Len(sequence) - i + 1])]

CigSnv == <<"0", "D", "3", "M", "1", "D">>
CigIndel == <<"0", "D", "1", "M", "1", "D", "2", "M", "0", "D">>
CigNoisy == <<"0", "D", "3", "M", "1", "D", "6", "M">>
CigJunk == <<"3", "M">>

Aligned(cigar, score) == [cigar |-> cigar, score |-> score]

\* what the two kevlar.align calls of align_both_strands may return for one
\* target: the forward and the reverse-complement alignment
AlignPairs ==
    {[fwd |-> Aligned(CigSnv, 2), rev |-> Aligned(CigJunk, 1)],
     [fwd |-> Aligned(CigSnv, 1), rev |-> Aligned(CigIndel, 2)],
     [fwd |-> Aligned(CigNoisy, 2), rev |-> Aligned(CigSnv, 2)],
     [fwd |-> Aligned(CigJunk, 3), rev |-> Aligned(CigJunk, 3)],
     [fwd |-> Aligned(CigJunk, 1), rev |-> Aligned(CigSnv, 0)]}

Mate(seqid, pos) == [seqid |-> seqid, pos |-> pos]

\* what align_mates (bwa mem on the mate reads) may yield
MateLists ==
    {<<>>,
     <<Mate(<<"x">>, 6)>>,
     <<Mate(<<"y">>, 1)>>,
     <<Mate(<<"x">>, 8), Mate(<<"x">>, 9), Mate(<<"y">>, 7)>>}

(***************************************************************************)
(* mate_distance and align_both_strands                                     *)
(***************************************************************************)
Abs(n) == IF n < 0 THEN -n ELSE n

\* sum(distances) / len(distances) as the pair (sum, len); ZeroDivisionError
\* when no mate lies on gdnaseq
RECURSIVE DistanceSum(_, _, _)
DistanceSum(mate_positions, gdnaseq, gdnapos) ==
    IF Len(mate_positions) = 0 THEN [sum |-> 0, n |-> 0]
    ELSE LET rest == DistanceSum(Tail(mate_positions), gdnaseq, gdnapos)
             m == mate_positions[1]
         IN  IF m.seqid # gdnaseq THEN rest
             ELSE [sum |-> rest.sum + Abs(m.pos - gdnapos), n |-> rest.n + 1]

mate_distance(mate_positions, gdnaseq, gdnapos) ==
    LET d == DistanceSum(mate_positions, gdnaseq, gdnapos)
    IN  [ok |-> d.n > 0, sum |-> d.sum, n |-> d.n]

\* MeanLess with the comparison turned round
MeanLessSwapped(a, b) == b.sum * a.n < a.sum * b.n

\* a.sum / a.n < b.sum / b.n
MeanLess(a, b) == a.sum * b.n < b.sum * a.n

align_both_strands(pair) ==
    IF pair.rev.score > pair.fwd.score
    THEN [cigar |-> pair.rev.cigar, score |-> pair.rev.score, strand |-> -1]
    ELSE [cigar |-> pair.fwd.cigar, score |-> pair.fwd.score, strand |-> 1]

(***************************************************************************)
(* call: the inputs.                                                        *)
(***************************************************************************)
MaxTargets == 3
CallKsize == 2

TargetPool ==
    <<Target(<<"y", "_", "5", "-", "9">>, <<"A", "C", "A", "C">>),
      Target(<<"x", "_", "7", "-", "9">>, <<"A", "A", "A", "C">>),
      Target(GoodName, <<"A", "C", "C", "C">>),
      Target(BadName, <<"C", "C", "A", "C">>),
      Target(NestedName, <<"C", "A", "A", "C">>)>>

\* runs of up to MaxTargets neighbours of the pool
TargetLists ==
    {SubSeq(TargetPool, i, j) :
        i \in 1..Len(TargetPool),
        j \in 1..Len(TargetPool)} \ {<<>>}

BoundedTargetLists == {l \in TargetLists : Len(l) <= MaxTargets}

Q1 == Query("q1", <<"A", "C", "C">>)
Q2 == Query("q2", <<"A", "A", "C", "A">>)

QueryLists == {<<Q1>>, <<Q1, Q2>>, <<Q2, Q1>>}

\* sorted(querylist, reverse=True, key=len): indices into querylist
QueryOrder ==
    LET n == Len(querylist)
        idx == [i \in 1..n |-> i]
        lt == [i \in 1..n |-> [j \in 1..n |->
                  Len(querylist[i].sequence) > Len(querylist[j].sequence)]]
    IN  StableSorted(idx, lt)

\* sorted(targetlist, key=lambda record: record.name)
SortedTargets ==
    LET n == Len(targetlist)
        lt == [i \in 1..n |-> [j \in 1..n |->
                  StrLess(targetlist[i].name, targetlist[j].name)]]
    IN  StableSorted(targetlist, lt)

\* alignments.sort(key=lambda a: a[2], reverse=True)
SortByScore(al) ==
    LET n == Len(al)
        lt == [i \in 1..n |-> [j \in 1..n |-> al[i].score > al[j].score]]
    IN  StableSorted(al, lt)

\* Select without the interpretability filter
SelectAnyShape(al) ==
    IF Len(al) = 1 THEN al
    ELSE SelectSeq(al, LAMBDA a : a.score = al[1].score)

\* lines 383-392: the candidates to report
Select(al) ==
    IF Len(al) = 1 THEN al
    ELSE LET scrtbl == SelectSeq(al, LAMBDA a : alignment_interpretable(a.cigar))
             finallist == IF Len(scrtbl) = 0 THEN al ELSE scrtbl
             bestscore == finallist[1].score
         IN  SelectSeq(finallist, LAMBDA a : a.score = bestscore)

\* the sort key of line 398 for one candidate
MateKey(mp, a) ==
    LET g == local_to_global(0, a.target.name)
    IN  IF ~g.ok THEN [ok |-> FALSE, exc |-> "subseqid", sum |-> 0, n |-> 0]
        ELSE LET d == mate_distance(mp, g.seqid, g.coord)
             IN  [ok |-> d.ok, exc |-> "ZeroDivisionError", sum |-> d.sum,
                  n |-> d.n]

\* aligns2report.sort(key=...): the keys are computed in list order, the first
\* one that raises ends the sort and leaves the list as it was
MateSort(mp, al) ==
    LET n == Len(al)
        key == [i \in 1..n |-> MateKey(mp, al[i])]
        bad == {i \in 1..n : ~key[i].ok}
        lt == [i \in 1..n |-> [j \in 1..n |-> MeanLess(key[i], key[j])]]
    IN  IF bad # {}
        THEN [fault |-> key[CHOOSE i \in bad : \A j \in bad : i <= j].exc,
              list |-> al]
        ELSE [fault |-> "none", list |-> StableSorted(al, lt)]

\* FlagMatefail as `if not best`
FlagMatefailAlways(mp, b) == ~b

\* `if mate_pos and not best`
FlagMatefail(mp, b) == mp # None /\ Len(mp[1]) > 0 /\ ~b

\* lines 403-404: the query sequence make_call is given
Oriented(sequence, orientation) ==
    IF orientation = -1 THEN Revcom(sequence) ELSE sequence

\* Restored without the second reverse complement
RestoredNot(sequence, orientation) == sequence

\* lines 409-412: the query sequence after the candidate's records
Restored(sequence, orientation) ==
    IF orientation = -1 THEN Revcom(sequence) ELSE sequence

(***************************************************************************)
(* call: the generator.  pc is "query" at the head of the loop over         *)
(* queries, "candidate" at the head of the loop over aligns2report,         *)
(* "yielding" inside the loop over make_call's records.                     *)
(***************************************************************************)
Init ==
    /\ inp = [target |-> Target(<<>>, <<>>), query |-> Query("", <<>>),
              ksize |-> CallKsize]
    /\ app = NoApp
    /\ res = Returned(<<>>)
    /\ targetlist \in BoundedTargetLists
    /\ querylist \in QueryLists
    /\ origseq = [i \in 1..Len(querylist) |-> querylist[i].sequence]
    /\ matefile \in BOOLEAN
    /\ refrfile \in BOOLEAN
    /\ bwa = None
    /\ mate_pos = None
    /\ pc = "query"
    /\ qi = 0
    /\ alignments = <<>>
    /\ aligns2report = <<>>
    /\ ai = 0
    /\ best = TRUE
    /\ pending = <<>>
    /\ yielded = None
    /\ callargs = None
    /\ fault = "none"

cur == QueryOrder[qi]

\* lines 374-399: the next query is aligned to every target, the candidates
\* are selected and, with mate evidence, ordered by mate distance
NextQuery ==
    /\ pc = "query" /\ qi < Len(querylist)
    /\ \E pairs \in [1..Len(targetlist) -> AlignPairs] :
       \E st \in {SortedTargets} :
       \E raw \in {[i \in 1..Len(st) |->
                      LET b == align_both_strands(pairs[i])
                      IN  [ti |-> i, target |-> st[i], cigar |-> b.cigar,
                           score |-> b.score, strand |-> b.strand]]} :
       \E al \in {SortByScore(raw)} :
       \E sel \in {Select(al)} :
       \E usemates \in {Len(sel) > 1 /\ matefile /\ refrfile} :
       \E load \in {usemates /\ mate_pos = None} :
       \E mates \in IF load THEN MateLists ELSE {<<>>} :
       \E mp \in {IF load THEN Some(mates) ELSE mate_pos} :
       \E sorted \in {IF usemates THEN MateSort(mp[1], sel)
                      ELSE [fault |-> "none", list |-> sel]} :
            /\ qi' = qi + 1
            /\ alignments' = al
            /\ bwa' = IF load THEN Some(mates) ELSE bwa
            /\ mate_pos' = mp
            /\ aligns2report' = sorted.list
            /\ fault' = sorted.fault
            /\ pc' = IF sorted.fault = "none" THEN "candidate" ELSE "fault"
    /\ ai' = 1
    /\ best' = TRUE
    /\ pending' = <<>>
    /\ yielded' = None
    /\ UNCHANGED <<purevars, targetlist, querylist, origseq, matefile,
                   refrfile, callargs>>

\* the loop over queries is exhausted: the generator returns
Finish ==
    /\ pc = "query" /\ qi = Len(querylist)
    /\ pc' = "done"
    /\ yielded' = None
    /\ UNCHANGED <<purevars, targetlist, querylist, origseq, matefile,
                   refrfile, bwa, mate_pos, qi, alignments, aligns2report, ai,
                   best, pending, callargs, fault>>

\* lines 401-405: the next candidate: the query is reverse-complemented for a
\* reverse orientation, and make_call runs
BeginCandidate ==
    /\ pc = "candidate" /\ ai <= Len(aligns2report)
    /\ \E a \in {aligns2report[ai]} :
       \E seq \in {Oriented(querylist[cur].sequence, a.strand)} :
       \E query \in {[querylist[cur] EXCEPT !.sequence = seq]} :
       \E r \in {make_call(a.target, query, a.cigar, inp.ksize)} :
           /\ querylist' = [querylist EXCEPT ![cur] = query]
           /\ callargs' = Some([target |-> a.target.name, sequence |-> seq,
                                cigar |-> a.cigar])
           /\ pending' = r.records
           /\ fault' = r.fault
           /\ pc' = IF r.fault = "none" THEN "yielding" ELSE "fault"
    /\ yielded' = None
    /\ UNCHANGED <<purevars, targetlist, origseq, matefile, refrfile, bwa,
                   mate_pos, qi, alignments, aligns2report, ai, best>>

\* lines 406-408: one record is flagged if need be, and yielded
YieldRecord ==
    /\ pc = "yielding" /\ Len(pending) > 0
    /\ yielded' = Some(IF FlagMatefail(mate_pos, best)
                       THEN [pending[1] EXCEPT !.NC = Some("matefail")]
                       ELSE pending[1])
    /\ pending' = Tail(pending)
    /\ UNCHANGED <<purevars, targetlist, querylist, origseq, matefile,
                   refrfile, bwa, mate_pos, pc, qi, alignments, aligns2report,
                   ai, best, callargs, fault>>

\* lines 409-413: the records are exhausted: the query sequence is changed
\* back and the candidate is no longer the best one
EndCandidate ==
    /\ pc = "yielding" /\ Len(pending) = 0
    /\ querylist' = [querylist EXCEPT ![cur].sequence =
                        Restored(@, aligns2report[ai].strand)]
    /\ best' = FALSE
    /\ ai' = ai + 1
    /\ pc' = "candidate"
    /\ yielded' = None
    /\ UNCHANGED <<purevars, targetlist, origseq, matefile, refrfile, bwa,
                   mate_pos, qi, alignments, aligns2report, pending, callargs,
                   fault>>

\* the loop over aligns2report is exhausted; the locals of the iteration are
\* dead from here on (the next iteration rebinds them) and are cleared
EndQuery ==
    /\ pc = "candidate" /\ ai > Len(aligns2report)
    /\ pc' = "query"
    /\ alignments' = <<>>
    /\ aligns2report' = <<>>
    /\ ai' = 0
    /\ callargs' = None
    /\ UNCHANGED <<purevars, targetlist, querylist, origseq, matefile,
                   refrfile, bwa, mate_pos, qi, best, pending, yielded, fault>>

Next ==
    \/ NextQuery
    \/ Finish
    \/ BeginCandidate
    \/ YieldRecord
    \/ EndCandidate
    \/ EndQuery

Spec == Init /\ [][Next]_vars

(***************************************************************************)
(* Properties of `call`.                                                    *)
(***************************************************************************)
IsNoCall(r) == r.refr = <<".">> /\ r.alt = <<".">>

Reported == {aligns2report[j].ti : j \in 1..Len(aligns2report)}

\* the candidates the selection starts from: the interpretable ones, or all
Pool ==
    IF \E i \in 1..Len(alignments) : alignment_interpretable(alignments[i].cigar)
    THEN {i \in 1..Len(alignments) : alignment_interpretable(alignments[i].cigar)}
    ELSE 1..Len(alignments)

TopOfPool ==
    {i \in Pool : \A m \in Pool : alignments[m].score <= alignments[i].score}

\* C1: with two or more targets the reported candidates are exactly the
\* members of the pool (the interpretable candidates, or all when none is
\* interpretable) whose score is the pool's maximum; with one target that
\* candidate is reported.
C1_Reported ==
    Len(alignments) >= 1 =>
        /\ Cardinality(Reported) = Len(aligns2report)
        /\ IF Len(alignments) = 1 THEN Reported = {alignments[1].ti}
           ELSE Reported = {alignments[i].ti : i \in TopOfPool}

C1_Witness ==
    /\ pc = "candidate" /\ Len(alignments) >= 2
    /\ \E i \in 1..Len(alignments) :
        /\ ~alignment_interpretable(alignments[i].cigar)
        /\ alignments[i].score > aligns2report[1].score

Matefail(r) == r.NC = Some("matefail")

\* C2 as claimed: when more than one tied candidate is reported, no record of
\* the first candidate is flagged matefail and every record of a later
\* candidate is.
C2_Original ==
    (yielded # None /\ Len(aligns2report) > 1) =>
        IF ai = 1 THEN ~Matefail(yielded[1]) ELSE Matefail(yielded[1])

\* C2 as amended: that holds when a mate-reads file and a reference file are
\* both supplied; when they are not, no record is flagged matefail.
C2_Matefail ==
    (yielded # None /\ Len(aligns2report) > 1) =>
        IF matefile /\ refrfile
        THEN (IF ai = 1 THEN ~Matefail(yielded[1]) ELSE Matefail(yielded[1]))
        ELSE ~Matefail(yielded[1])

C2_Witness ==
    /\ yielded # None /\ ai = 2
    /\ Matefail(yielded[1])
    /\ ~IsNoCall(yielded[1])

ReportedDistance(j) ==
    mate_distance(mate_pos[1], l2g_match(aligns2report[j].target.name).seqid,
                  l2g_match(aligns2report[j].target.name).start)

\* C4: with a mate-reads file and a reference file, more than one tied
\* candidate is reported in non-decreasing order of mean mate distance, and
\* candidates at the same distance keep the order they had (that of the
\* name-sorted targets); this fixes the order, so selecting again on the same
\* inputs gives it again.
C4_MateOrder ==
    (matefile /\ refrfile /\ pc \in {"candidate", "yielding"}
        /\ Len(aligns2report) > 1) =>
        \A i \in 1..Len(aligns2report) : \A j \in (i + 1)..Len(aligns2report) :
            \E di \in {ReportedDistance(i)} : \E dj \in {ReportedDistance(j)} :
                \/ di.sum * dj.n < dj.sum * di.n
                \/ /\ di.sum * dj.n = dj.sum * di.n
                   /\ aligns2report[i].ti < aligns2report[j].ti

C4_Witness ==
    /\ matefile /\ refrfile /\ pc = "candidate"
    /\ Len(aligns2report) >= 2
    /\ aligns2report[1].ti > aligns2report[2].ti

\* C10: a run ends in no fault other than the unparsable target name and the
\* insertion-allele length assertion; in particular obtaining the mate
\* distances of tied candidates never faults.
C10_OnlyFatal == pc = "fault" => fault \in {"subseqid", "inslen"}

(***************************************************************************)
(* Properties of the pure functions.                                        *)
(***************************************************************************)
Inscrutable(r) ==
    r.fault = "none" /\ r.records[1].NC = Some("inscrutablecigar")

\* the global coordinate of the target's local offset 0
TargetStart == l2g_match(inp.target.name).start

\* C5: make_call on a plain SNV or indel shape followed by <t>M, t <= 5,
\* returns what make_call returns on the plain shape alone.
C5_TrailingNoise ==
    (app.op = "make_call_trailing" /\ app.trail <= 5) =>
        res = make_call(inp.target, inp.query, app.cigar, inp.ksize)

C5_Witness ==
    /\ app.op = "make_call_trailing" /\ app.trail = 5
    /\ res.fault = "none"
    /\ res.records[1].kind = "VariantIndel"

\* the two windows call_snv compares, read off its arguments
SnvT ==
    IF app.offset < 0 THEN SubSeq(inp.target.sequence, 1, app.length)
    ELSE SubSeq(inp.target.sequence, app.offset + 1, app.offset + app.length)

SnvQ ==
    IF app.offset < 0
    THEN SubSeq(inp.query.sequence, 1 - app.offset, app.length - app.offset)
    ELSE SubSeq(inp.query.sequence, 1, app.length)

SnvDiff == {i \in 0..(app.length - 1) : SnvT[i + 1] # SnvQ[i + 1]}

SnvBase == TargetStart + (IF app.offset < 0 THEN 0 ELSE app.offset)

SnvWindowLen(i) ==
    (IF i + inp.ksize < app.length THEN i + inp.ksize ELSE app.length)
      - (IF i - inp.ksize + 1 > 0 THEN i - inp.ksize + 1 ELSE 0)

\* C6: call_snv returns one perfectmatch no-call when the compared windows
\* differ nowhere; otherwise no no-call and one SNV per differing index, in
\* increasing index order, with VW and RW of min(i+k, length) - max(i-k+1, 0)
\* bases.
C6_SnvRecords ==
    (app.op = "call_snv" /\ res.fault = "none") =>
        LET rs == res.records
            idx(j) == rs[j].pos - SnvBase
        IN  IF SnvDiff = {}
            THEN /\ Len(rs) = 1
                 /\ IsNoCall(rs[1])
                 /\ rs[1].NC = Some("perfectmatch")
            ELSE /\ Len(rs) = Cardinality(SnvDiff)
                 /\ \A j \in 1..Len(rs) :
                        /\ ~IsNoCall(rs[j])
                        /\ rs[j].kind = "VariantSNV"
                        /\ idx(j) \in SnvDiff
                        /\ j < Len(rs) => idx(j) < idx(j + 1)
                        /\ Len(rs[j].VW[1]) = SnvWindowLen(idx(j))
                        /\ Len(rs[j].RW[1]) = SnvWindowLen(idx(j))

C6_Witness ==
    /\ app.op = "call_snv" /\ res.fault = "none"
    /\ inp.ksize = 2
    /\ Len(res.records) = 2
    /\ Len(res.records[1].VW[1]) < Len(res.records[2].VW[1])

\* C7: every SNV record of call_snv has single-character uppercase refr and
\* alt, and refr differs from alt.
C7_SnvAlleles ==
    app.op = "call_snv" =>
        \A j \in 1..Len(res.records) :
            LET r == res.records[j]
            IN  r.kind = "VariantSNV" =>
                    /\ Len(r.refr) = 1 /\ Len(r.alt) = 1
                    /\ Upper(r.refr[1]) = r.refr[1]
                    /\ Upper(r.alt[1]) = r.alt[1]
                    /\ r.refr # r.alt

\* C8: alignment_interpretable is true of an operation string exactly when
\* make_call on it does not end in the inscrutablecigar no-call.
C8_SelectorAgrees ==
    (app.op = "interpret" /\ l2g_match(inp.target.name).ok) =>
        (app.interp <=> ~Inscrutable(res))

IndelPos ==
    TargetStart + app.leftmatch - 1 + (IF app.offset < 0 THEN 0 ELSE app.offset)

\* C9 as claimed: whenever call_deletion or call_insertion returns, it returns
\* one indel record whose longer allele has indellength+1 bases and whose
\* shorter allele is the longer one's first base, at start + leftmatch - 1,
\* plus the offset when it is non-negative.
C9_Original ==
    (app.op \in {"call_deletion", "call_insertion"} /\ res.fault = "none") =>
        LET r == res.records[1]
            long == IF app.op = "call_deletion" THEN r.refr ELSE r.alt
            short == IF app.op = "call_deletion" THEN r.alt ELSE r.refr
        IN  /\ Len(res.records) = 1
            /\ r.kind = "VariantIndel"
            /\ Len(long) = app.indellength + 1
            /\ short = <<long[1]>>
            /\ r.pos = IndelPos

\* the first base of the deleted allele, as an index into the target
DelFrom == app.leftmatch - 1 + (IF app.offset < 0 THEN 0 ELSE app.offset)

DelFits ==
    DelFrom >= 0 /\ DelFrom + app.indellength + 1 <= Len(inp.target.sequence)

\* C9 as amended: call_insertion is as claimed; call_deletion returns one
\* indel record at the claimed position whose alt is the first base of refr,
\* and refr has indellength+1 bases exactly when the target holds that many
\* from the anchor base on; otherwise refr is shorter (and not empty).
C9_IndelRecord ==
    (app.op \in {"call_deletion", "call_insertion"} /\ res.fault = "none") =>
        LET r == res.records[1]
        IN  /\ Len(res.records) = 1
            /\ r.kind = "VariantIndel"
            /\ r.pos = IndelPos
            /\ app.op = "call_insertion" =>
                   /\ Len(r.alt) = app.indellength + 1
                   /\ r.refr = <<r.alt[1]>>
            /\ app.op = "call_deletion" =>
                   /\ r.alt = <<r.refr[1]>>
                   /\ Len(r.refr) >= 1
                   /\ IF DelFits THEN Len(r.refr) = app.indellength + 1
                      ELSE Len(r.refr) < app.indellength + 1

C9_Witness ==
    /\ app.op = "call_deletion" /\ res.fault = "none"
    /\ app.offset < 0 /\ app.indellength = 2
    /\ Len(res.records[1].refr) = 2

====
